---- MODULE Spec2Model ----
(***************************************************************************)
(* The database handle of package mongo (src/lib.go): one owned session,   *)
(* one max-time duration behind an embedded sync.RWMutex, and the          *)
(* pass-through operations that copy the session, issue their requests and *)
(* close the copy.                                                         *)
(*                                                                         *)
(* Spec     - the handle used by one goroutine: every method of DB is one  *)
(*            action, and `last` records what the call did (copies and     *)
(*            closes of working sessions, the requests it issued, what it  *)
(*            returned).                                                   *)
(* SpecRace - one goroutine calling SetMaxTimeMS and one calling the read  *)
(*            operations, both in steps, so that the accesses to           *)
(*            db.maxTimeMS interleave.                                     *)
(*                                                                         *)
(* Durations are counted in milliseconds (time.Duration counts             *)
(* nanoseconds; no operation of the package looks below a millisecond).    *)
(*                                                                         *)
(* The driver (github.com/globalsign/mgo) is outside the package.  Of it   *)
(* the model keeps: DialWithTimeout returns (session, nil) or (nil, err);  *)
(* Session.Close is idempotent; Session.Copy panics on a nil receiver (nil *)
(* dereference) and on a closed session ("Session already closed"); every  *)
(* request returns nil or an error, chosen nondeterministically.           *)
(***************************************************************************)
EXTENDS Integers, Sequences, FiniteSets

VARIABLES
    sess,       \* db.sess: "nil", or the state of the session it points to ("live", "closed")
    maxTimeMS,  \* db.maxTimeMS, kept as its two machine words [hi, lo]
    work,       \* working sessions the handle copied for a call and has not closed
    handed,     \* sessions returned by SessCopy and not yet closed by SessClose
    last,       \* what the last completed call did
    mu,         \* db.RWMutex: [writer: BOOLEAN, readers: Nat]
    wpc,        \* SetMaxTimeMS goroutine: "idle", "locked"
    wval,       \* the duration SetMaxTimeMS is storing
    wdone,      \* the words of db.maxTimeMS it has stored
    rpc,        \* reading goroutine: "idle", "read", "loaded", "sent"
    rop,        \* the read operation it runs
    rleft,      \* requests the operation has still to issue
    rdone,      \* the words of db.maxTimeMS it has loaded for the next request
    rbuf,       \* the words it loaded
    window,     \* values db.maxTimeMS was set to since the load for the next request began
    sent,       \* requests issued by the running read operation
    cur         \* the value of the last completed SetMaxTimeMS (or the constructor's)

seqVars  == <<sess, maxTimeMS, work, handed, last>>
raceVars == <<mu, wpc, wval, wdone, rpc, rop, rleft, rdone, rbuf, window, sent>>
vars     == <<sess, maxTimeMS, work, handed, last,
              mu, wpc, wval, wdone, rpc, rop, rleft, rdone, rbuf, window, sent, cur>>

----------------------------------------------------------------------------
(* Constants of the package *)

Second            == 1000
defaultConTimeout == 15 * Second
defaultMaxTimeMS  == 30 * Second
errorNotConnected == "DB is not connected"
errorNotValid     == "Query is not valid"

(* Bounds of the model *)

MaxKeys   == 2      \* keys passed to CreateIndexKeys
MaxLen    == 3      \* length of each sequence passed to UpsertMulti
MaxHanded == 2      \* sessions SessCopy may have outstanding

(* Inputs *)

Timeouts == {0 - Second, 0, Second - 1, Second, Second + 1, 20 * Second}
MaxTimes == {0, Second + (Second \div 2), defaultMaxTimeMS}
DialErr  == {"nil", "err"}
WriteErr == {"nil", "err"}
EngineErr == {"nil", "ErrNotFound", "err"}
NoMaxTime == 0 - 1      \* a request without SetMaxTime

----------------------------------------------------------------------------
(* db.maxTimeMS is a 64-bit integer.  A 32-bit build stores and loads it as
   two words; the model's word holds one second of milliseconds. *)

Words == {"hi", "lo"}
Split(d) == [hi |-> d \div Second, lo |-> d % Second]
Join(w)  == w.hi * Second + w.lo

(* The record of a call *)

Req(kind, dur, outcome) == [kind |-> kind, dur |-> dur, outcome |-> outcome]

Done(op, arg, ret, copies, closes, stale, reqs) ==
    [op |-> op, arg |-> arg, ret |-> ret, copies |-> copies, closes |-> closes,
     stale |-> stale, reqs |-> reqs]

IsConnected == sess # "nil"

(* The read of db.maxTimeMS by a call no SetMaxTimeMS runs beside *)
MaxTime == Join(maxTimeMS)

----------------------------------------------------------------------------
(* Shapes shared by the operations *)

(* return before the session is copied *)
Returns(op, arg, ret) ==
    /\ last' = Done(op, arg, ret, 0, 0, 0, <<>>)
    /\ UNCHANGED <<sess, maxTimeMS, work, handed, raceVars, cur>>

(* db.sess.Copy() panics: nil receiver, or a session Close() already released *)
CopyPanics(op, arg) ==
    /\ last' = Done(op, arg, "panic", 0, 0, IF sess = "closed" THEN 1 ELSE 0, <<>>)
    /\ UNCHANGED <<sess, maxTimeMS, work, handed, raceVars, cur>>

(* var sess = db.sess.Copy(); the body issues reqs and returns ret; the copy
   is closed `closes` times on the way out *)
Scoped(op, arg, reqs, ret, closes) ==
    /\ last' = Done(op, arg, ret, 1, closes, 0, reqs)
    /\ work' = work + 1 - closes
    /\ UNCHANGED <<sess, maxTimeMS, handed, raceVars, cur>>

(* var sess = db.sess.Copy(); defer sess.Close(); body *)
WithSession(op, arg, reqs, ret) ==
    IF sess # "live" THEN CopyPanics(op, arg)
    ELSE Scoped(op, arg, reqs, ret, 1)

----------------------------------------------------------------------------
(* Connection lifecycle *)

EffectiveTimeout_Inclusive(timeout) ==
    IF timeout <= Second THEN defaultConTimeout ELSE timeout

EffectiveTimeout(timeout) ==
    IF timeout < Second THEN defaultConTimeout ELSE timeout

(* db.sess, err = mgo.DialWithTimeout(dsn, timeout); return err *)
Dialled(op, arg, timeout, e) ==
    Done(op, arg, e, 0, 0, 0, <<Req("Dial", timeout, e)>>)

DialSess(e) == IF e = "nil" THEN "live" ELSE "nil"

Connect_KeepsSession ==
    \E e \in DialErr :
        /\ sess' = IF e = "nil" THEN "live" ELSE sess
        /\ last' = Dialled("Connect", <<>>, defaultConTimeout, e)
        /\ UNCHANGED <<maxTimeMS, work, handed, raceVars, cur>>

Connect ==
    \E e \in DialErr :
        /\ sess' = DialSess(e)
        /\ last' = Dialled("Connect", <<>>, defaultConTimeout, e)
        /\ UNCHANGED <<maxTimeMS, work, handed, raceVars, cur>>

ConnectWithTimeout(timeout) ==
    \E e \in DialErr :
        /\ sess' = DialSess(e)
        /\ last' = Dialled("ConnectWithTimeout", <<timeout>>, EffectiveTimeout(timeout), e)
        /\ UNCHANGED <<maxTimeMS, work, handed, raceVars, cur>>

SetMaxTimeMS(d) ==
    /\ maxTimeMS' = Split(d)
    /\ last' = Done("SetMaxTimeMS", <<d>>, "none", 0, 0, 0, <<>>)
    /\ UNCHANGED <<sess, work, handed, raceVars, cur>>

Disconnect ==
    /\ IF IsConnected
       THEN /\ sess' = "closed"
            /\ last' = Done("Disconnect", <<>>, "none", 0, 0,
                            IF sess = "closed" THEN 1 ELSE 0, <<>>)
       ELSE /\ sess' = sess
            /\ last' = Done("Disconnect", <<>>, "none", 0, 0, 0, <<>>)
    /\ UNCHANGED <<maxTimeMS, work, handed, raceVars, cur>>

(* Constructors: the states a handle starts in *)

GetDb ==
    /\ sess = "nil"
    /\ maxTimeMS = Split(0)
    /\ last = Done("GetDb", <<>>, "none", 0, 0, 0, <<>>)

NewConnection ==
    \E e \in DialErr :
        /\ sess = DialSess(e)
        /\ maxTimeMS = Split(defaultMaxTimeMS)
        /\ last = Dialled("NewConnection", <<>>, defaultConTimeout, e)

NewConnectionWithTimeout(timeout) ==
    \E e \in DialErr :
        /\ sess = DialSess(e)
        /\ maxTimeMS = Split(defaultMaxTimeMS)
        /\ last = Dialled("NewConnectionWithTimeout", <<timeout>>,
                          EffectiveTimeout(timeout), e)

----------------------------------------------------------------------------
(* Index and insert operations *)

CreateIndexKey ==
    \E e \in WriteErr :
        IF ~IsConnected THEN Returns("CreateIndexKey", <<>>, errorNotConnected)
        ELSE WithSession("CreateIndexKey", <<>>, <<Req("EnsureIndexKey", NoMaxTime, e)>>, e)

(* the requests of a loop over n items that returns at the first failure, the
   f-th (f = 0: none fails) *)
UntilFailure(kind, n, f) ==
    [i \in 1..(IF f = 0 THEN n ELSE f) |->
        Req(kind, NoMaxTime, IF i = f THEN "err" ELSE "nil")]

CreateIndexKeys_LeaksOnError ==
    \E n \in 0..MaxKeys : \E f \in 0..n :
        IF ~IsConnected THEN Returns("CreateIndexKeys", <<n>>, errorNotConnected)
        ELSE IF sess # "live" THEN CopyPanics("CreateIndexKeys", <<n>>)
        ELSE Scoped("CreateIndexKeys", <<n>>, UntilFailure("EnsureIndexKey", n, f),
                    IF f = 0 THEN "nil" ELSE "err", IF f = 0 THEN 1 ELSE 0)

CreateIndexKeys ==
    \E n \in 0..MaxKeys : \E f \in 0..n :
        IF ~IsConnected THEN Returns("CreateIndexKeys", <<n>>, errorNotConnected)
        ELSE WithSession("CreateIndexKeys", <<n>>, UntilFailure("EnsureIndexKey", n, f),
                         IF f = 0 THEN "nil" ELSE "err")

Insert_Unchecked ==
    \E e \in WriteErr :
        WithSession("Insert", <<>>, <<Req("Insert", NoMaxTime, e)>>, e)

Insert ==
    \E e \in WriteErr :
        IF ~IsConnected THEN Returns("Insert", <<>>, errorNotConnected)
        ELSE WithSession("Insert", <<>>, <<Req("Insert", NoMaxTime, e)>>, e)

InsertBulk ==
    \E e \in WriteErr :
        IF ~IsConnected THEN Returns("InsertBulk", <<>>, errorNotConnected)
        ELSE WithSession("InsertBulk", <<>>, <<Req("Bulk.Run", NoMaxTime, e)>>, e)

(* s: the session the caller passes, "nil" or "live" *)
InsertSess(s) ==
    \E e \in WriteErr :
        IF ~IsConnected \/ s = "nil" THEN Returns("InsertSess", <<s>>, errorNotConnected)
        ELSE /\ last' = Done("InsertSess", <<s>>, e, 0, 0, 0, <<Req("Insert", NoMaxTime, e)>>)
             /\ UNCHANGED <<sess, maxTimeMS, work, handed, raceVars, cur>>

----------------------------------------------------------------------------
(* Read and aggregate operations *)

Find ==
    \E e \in WriteErr :
        IF ~IsConnected THEN Returns("Find", <<>>, errorNotConnected)
        ELSE WithSession("Find", <<>>, <<Req("Find.All", MaxTime, e)>>, e)

Pipe ==
    \E e \in WriteErr :
        IF ~IsConnected THEN Returns("Pipe", <<>>, errorNotConnected)
        ELSE WithSession("Pipe", <<>>, <<Req("Pipe.All", MaxTime, e)>>, e)

PipeOne ==
    \E e \in EngineErr :
        IF ~IsConnected THEN Returns("PipeOne", <<>>, errorNotConnected)
        ELSE WithSession("PipeOne", <<>>, <<Req("Pipe.One", MaxTime, e)>>, e)

FindByID ==
    \E e \in EngineErr :
        IF ~IsConnected THEN Returns("FindByID", <<>>, "false")
        ELSE WithSession("FindByID", <<>>, <<Req("FindId.One", MaxTime, e)>>,
                         IF "ErrNotFound" # e THEN "true" ELSE "false")

FindAll ==
    \E e \in WriteErr :
        IF ~IsConnected THEN Returns("FindAll", <<>>, errorNotConnected)
        ELSE WithSession("FindAll", <<>>, <<Req("Find.All", MaxTime, e)>>, e)

FindWithQuery ==
    \E e \in EngineErr :
        IF ~IsConnected THEN Returns("FindWithQuery", <<>>, errorNotConnected)
        ELSE WithSession("FindWithQuery", <<>>, <<Req("Find.One", MaxTime, e)>>, e)

FindWithQuerySortOne ==
    \E e \in EngineErr :
        IF ~IsConnected THEN Returns("FindWithQuerySortOne", <<>>, errorNotConnected)
        ELSE WithSession("FindWithQuerySortOne", <<>>, <<Req("Find.Sort.One", MaxTime, e)>>, e)

FindWithQuerySortAll ==
    \E e \in WriteErr :
        IF ~IsConnected THEN Returns("FindWithQuerySortAll", <<>>, errorNotConnected)
        ELSE WithSession("FindWithQuerySortAll", <<>>, <<Req("Find.Sort.All", MaxTime, e)>>, e)

FindWithQuerySortLimitAll ==
    \E e \in WriteErr :
        IF ~IsConnected THEN Returns("FindWithQuerySortLimitAll", <<>>, errorNotConnected)
        ELSE WithSession("FindWithQuerySortLimitAll", <<>>, <<Req("Find.Sort.Limit.All", MaxTime, e)>>, e)

FindWithQueryOne ==
    \E e \in EngineErr :
        IF ~IsConnected THEN Returns("FindWithQueryOne", <<>>, errorNotConnected)
        ELSE WithSession("FindWithQueryOne", <<>>, <<Req("Find.One", MaxTime, e)>>, e)

FindWithQueryAll ==
    \E e \in WriteErr :
        IF ~IsConnected THEN Returns("FindWithQueryAll", <<>>, errorNotConnected)
        ELSE WithSession("FindWithQueryAll", <<>>, <<Req("Find.All", MaxTime, e)>>, e)

FindWithQuerySortLimitOffsetAll ==
    \E e \in WriteErr :
        IF ~IsConnected THEN Returns("FindWithQuerySortLimitOffsetAll", <<>>, errorNotConnected)
        ELSE WithSession("FindWithQuerySortLimitOffsetAll", <<>>, <<Req("Find.Sort.Limit.Skip.All", MaxTime, e)>>, e)

(* total: whether the caller passes a pointer for the count, whose error is dropped *)
FindWithQuerySortLimitOffsetTotalAll(total) ==
    \E c \in WriteErr : \E e \in WriteErr :
        IF ~IsConnected
        THEN Returns("FindWithQuerySortLimitOffsetTotalAll", <<total>>, errorNotConnected)
        ELSE WithSession("FindWithQuerySortLimitOffsetTotalAll", <<total>>,
                         (IF total THEN <<Req("Find.Count", MaxTime, c)>> ELSE <<>>)
                             \o <<Req("Find.Sort.Limit.Skip.All", MaxTime, e)>>,
                         e)

Count ==
    \E e \in WriteErr :
        IF ~IsConnected THEN Returns("Count", <<>>, errorNotConnected)
        ELSE WithSession("Count", <<>>, <<Req("Find.Count", MaxTime, e)>>, e)

----------------------------------------------------------------------------
(* Update, upsert and remove operations *)

Update ==
    \E e \in EngineErr :
        IF ~IsConnected THEN Returns("Update", <<>>, errorNotConnected)
        ELSE WithSession("Update", <<>>, <<Req("Update", NoMaxTime, e)>>, e)

UpdateWithQuery ==
    \E e \in EngineErr :
        IF ~IsConnected THEN Returns("UpdateWithQuery", <<>>, errorNotConnected)
        ELSE WithSession("UpdateWithQuery", <<>>, <<Req("Update", NoMaxTime, e)>>, e)

UpdateWithQueryAll ==
    \E e \in WriteErr :
        IF ~IsConnected THEN Returns("UpdateWithQueryAll", <<>>, errorNotConnected)
        ELSE WithSession("UpdateWithQueryAll", <<>>, <<Req("UpdateAll", NoMaxTime, e)>>, e)

Upsert ==
    \E e \in WriteErr :
        IF ~IsConnected THEN Returns("Upsert", <<>>, errorNotConnected)
        ELSE WithSession("Upsert", <<>>, <<Req("Upsert", NoMaxTime, e)>>, e)

UpsertWithQuery ==
    \E e \in WriteErr :
        IF ~IsConnected THEN Returns("UpsertWithQuery", <<>>, errorNotConnected)
        ELSE WithSession("UpsertWithQuery", <<>>, <<Req("Upsert", NoMaxTime, e)>>, e)

(* one upsert per identifier, the outcome of each dropped *)
Upserts(n, o) == [i \in 1..n |-> Req("Upsert", NoMaxTime, o[i])]

UpsertMulti_ShortDocsOnly(lenId, lenV) ==
    \E o \in [1..(IF lenId < lenV THEN lenId ELSE lenV) -> WriteErr] :
        IF ~IsConnected THEN Returns("UpsertMulti", <<lenId, lenV>>, errorNotConnected)
        ELSE IF lenId > lenV THEN Returns("UpsertMulti", <<lenId, lenV>>, errorNotValid)
        ELSE WithSession("UpsertMulti", <<lenId, lenV>>, Upserts(lenId, o), "nil")

UpsertMulti(lenId, lenV) ==
    \E o \in [1..lenId -> WriteErr] :
        IF ~IsConnected THEN Returns("UpsertMulti", <<lenId, lenV>>, errorNotConnected)
        ELSE IF lenId # lenV THEN Returns("UpsertMulti", <<lenId, lenV>>, errorNotValid)
        ELSE WithSession("UpsertMulti", <<lenId, lenV>>, Upserts(lenId, o), "nil")

Remove ==
    \E e \in WriteErr :
        IF ~IsConnected THEN Returns("Remove", <<>>, errorNotConnected)
        ELSE WithSession("Remove", <<>>, <<Req("RemoveAll", NoMaxTime, e)>>, e)

RemoveAll ==
    \E e \in WriteErr :
        WithSession("RemoveAll", <<>>, <<Req("RemoveAll", NoMaxTime, e)>>, e)

RemoveWithQuery ==
    \E e \in WriteErr :
        IF ~IsConnected THEN Returns("RemoveWithQuery", <<>>, errorNotConnected)
        ELSE WithSession("RemoveWithQuery", <<>>, <<Req("RemoveAll", NoMaxTime, e)>>, e)

RemoveWithIDs ==
    \E e \in WriteErr :
        IF ~IsConnected THEN Returns("RemoveWithIDs", <<>>, errorNotConnected)
        ELSE WithSession("RemoveWithIDs", <<>>, <<Req("RemoveAll", NoMaxTime, e)>>, e)

----------------------------------------------------------------------------
(* The raw session operations *)

(* cb: whether the caller's callback returns or panics *)
SessExec(cb) ==
    IF ~IsConnected THEN Returns("SessExec", <<cb>>, "none")
    ELSE WithSession("SessExec", <<cb>>, <<>>, IF cb = "panic" THEN "panic" ELSE "none")

SessCopy ==
    IF ~IsConnected THEN Returns("SessCopy", <<>>, "nil")
    ELSE IF sess # "live" THEN CopyPanics("SessCopy", <<>>)
    ELSE /\ handed < MaxHanded
         /\ handed' = handed + 1
         /\ last' = Done("SessCopy", <<>>, "session", 1, 0, 0, <<>>)
         /\ UNCHANGED <<sess, maxTimeMS, work, raceVars, cur>>

(* s: the session the caller passes, "nil" or one SessCopy returned *)
SessClose(s) ==
    IF ~IsConnected \/ s = "nil" THEN Returns("SessClose", <<s>>, "none")
    ELSE /\ handed > 0
         /\ handed' = handed - 1
         /\ last' = Done("SessClose", <<s>>, "none", 0, 1, 0, <<>>)
         /\ UNCHANGED <<sess, maxTimeMS, work, raceVars, cur>>

----------------------------------------------------------------------------
(* The handle used by one goroutine *)

Idle ==
    /\ mu = [writer |-> FALSE, readers |-> 0]
    /\ wpc = "idle" /\ wval = 0 /\ wdone = {}
    /\ rpc = "idle" /\ rop = "none" /\ rleft = 0 /\ rdone = {}
    /\ rbuf = Split(0) /\ window = {} /\ sent = <<>>

Init ==
    /\ \/ GetDb
       \/ NewConnection
       \/ \E timeout \in Timeouts : NewConnectionWithTimeout(timeout)
    /\ work = 0
    /\ handed = 0
    /\ cur = Join(maxTimeMS)
    /\ Idle

Next ==
    \/ Connect
    \/ \E timeout \in Timeouts : ConnectWithTimeout(timeout)
    \/ \E d \in MaxTimes : SetMaxTimeMS(d)
    \/ Disconnect
    \/ CreateIndexKey
    \/ CreateIndexKeys
    \/ Insert
    \/ InsertBulk
    \/ \E s \in {"nil", "live"} : InsertSess(s)
    \/ Find
    \/ Pipe
    \/ PipeOne
    \/ FindByID
    \/ FindAll
    \/ FindWithQuery
    \/ FindWithQuerySortOne
    \/ FindWithQuerySortAll
    \/ FindWithQuerySortLimitAll
    \/ FindWithQueryOne
    \/ FindWithQueryAll
    \/ FindWithQuerySortLimitOffsetAll
    \/ \E total \in BOOLEAN : FindWithQuerySortLimitOffsetTotalAll(total)
    \/ Count
    \/ Update
    \/ UpdateWithQuery
    \/ UpdateWithQueryAll
    \/ Upsert
    \/ UpsertWithQuery
    \/ \E lenId \in 0..MaxLen : \E lenV \in 0..MaxLen : UpsertMulti(lenId, lenV)
    \/ Remove
    \/ RemoveAll
    \/ RemoveWithQuery
    \/ RemoveWithIDs
    \/ \E cb \in {"return", "panic"} : SessExec(cb)
    \/ SessCopy
    \/ \E s \in {"nil", "live"} : SessClose(s)

Spec == Init /\ [][Next]_vars

----------------------------------------------------------------------------
(* SetMaxTimeMS in one goroutine beside a read operation in another.  The
   writer takes the write lock, stores the two words of db.maxTimeMS and
   unlocks.  The reader copies the session, loads the two words of
   db.maxTimeMS for SetMaxTime(db.maxTimeMS) - without taking the lock - and
   issues the request; the order of the two loads, like that of the two
   stores, is the compiler's. *)

ReadOps ==
    {"Find", "Pipe", "PipeOne", "FindByID", "FindAll", "FindWithQuery",
     "FindWithQuerySortOne", "FindWithQuerySortAll", "FindWithQuerySortLimitAll",
     "FindWithQueryOne", "FindWithQueryAll", "FindWithQuerySortLimitOffsetAll",
     "FindWithQuerySortLimitOffsetTotalAll", "Count"}

(* the values a SetMaxTimeMS has made, or is making, the current one *)
Current == {cur} \cup (IF wpc = "locked" THEN {wval} ELSE {})

(* the requests an operation issues with SetMaxTime(db.maxTimeMS) *)
Requests(op, total) ==
    IF op = "FindWithQuerySortLimitOffsetTotalAll" /\ total THEN 2 ELSE 1

SetMaxTimeMS_Lock(d) ==
    /\ wpc = "idle"
    /\ ~mu.writer /\ mu.readers = 0
    /\ mu' = [mu EXCEPT !.writer = TRUE]
    /\ wpc' = "locked"
    /\ wval' = d
    /\ wdone' = {}
    /\ window' = IF rpc \in {"read", "loaded"} THEN window \cup {d} ELSE window
    /\ UNCHANGED <<sess, maxTimeMS, work, handed, last, rpc, rop, rleft, rdone, rbuf, sent, cur>>

SetMaxTimeMS_Store(w) ==
    /\ wpc = "locked"
    /\ w \notin wdone
    /\ maxTimeMS' = [maxTimeMS EXCEPT ![w] = Split(wval)[w]]
    /\ wdone' = wdone \cup {w}
    /\ UNCHANGED <<sess, work, handed, last, mu, wpc, wval, rpc, rop, rleft, rdone, rbuf,
                   window, sent, cur>>

SetMaxTimeMS_Unlock ==
    /\ wpc = "locked"
    /\ wdone = Words
    /\ mu' = [mu EXCEPT !.writer = FALSE]
    /\ wpc' = "idle"
    /\ cur' = wval
    /\ UNCHANGED <<sess, maxTimeMS, work, handed, last, wval, wdone, rpc, rop, rleft, rdone,
                   rbuf, window, sent>>

(* if !db.IsConnected() {...}; var sess = db.sess.Copy(); defer sess.Close() *)
Read_Begin(op, total) ==
    /\ rpc = "idle"
    /\ sess = "live"
    /\ work' = work + 1
    /\ rpc' = "read"
    /\ rop' = op
    /\ rleft' = Requests(op, total)
    /\ rdone' = {}
    /\ window' = Current
    /\ sent' = <<>>
    /\ UNCHANGED <<sess, maxTimeMS, handed, last, mu, wpc, wval, wdone, rbuf, cur>>

(* one word of db.maxTimeMS, read with no RLock *)
Read_Load(w) ==
    /\ rpc = "read"
    /\ w \notin rdone
    /\ rbuf' = [rbuf EXCEPT ![w] = maxTimeMS[w]]
    /\ rdone' = rdone \cup {w}
    /\ rpc' = IF rdone' = Words THEN "loaded" ELSE "read"
    /\ UNCHANGED <<sess, maxTimeMS, work, handed, last, mu, wpc, wval, wdone, rop, rleft,
                   window, sent, cur>>

(* ...SetMaxTime(db.maxTimeMS).All(v): the request leaves with the loaded value *)
Read_Dispatch ==
    /\ rpc = "loaded"
    /\ sent' = Append(sent, [kind |-> rop, dur |-> Join(rbuf), window |-> window])
    /\ rleft' = rleft - 1
    /\ IF rleft' > 0
       THEN rpc' = "read" /\ rdone' = {} /\ window' = Current
       ELSE rpc' = "sent" /\ UNCHANGED <<rdone, window>>
    /\ UNCHANGED <<sess, maxTimeMS, work, handed, last, mu, wpc, wval, wdone, rop, rbuf, cur>>

(* the deferred sess.Close() *)
Read_End ==
    /\ rpc = "sent"
    /\ work' = work - 1
    /\ rpc' = "idle"
    /\ UNCHANGED <<sess, maxTimeMS, handed, last, mu, wpc, wval, wdone, rop, rleft, rdone,
                   rbuf, window, sent, cur>>

InitRace ==
    /\ sess = "live"
    /\ maxTimeMS = Split(defaultMaxTimeMS)
    /\ last = Dialled("NewConnection", <<>>, defaultConTimeout, "nil")
    /\ work = 0
    /\ handed = 0
    /\ cur = defaultMaxTimeMS
    /\ Idle

NextRace ==
    \/ \E d \in MaxTimes : SetMaxTimeMS_Lock(d)
    \/ \E w \in Words : SetMaxTimeMS_Store(w)
    \/ SetMaxTimeMS_Unlock
    \/ \E op \in ReadOps : \E total \in BOOLEAN : Read_Begin(op, total)
    \/ \E w \in Words : Read_Load(w)
    \/ Read_Dispatch
    \/ Read_End

SpecRace == InitRace /\ [][NextRace]_vars

----------------------------------------------------------------------------
(* Properties of the handle used by one goroutine (Spec) *)

CheckedOps ==
    {"CreateIndexKey", "CreateIndexKeys", "Insert", "InsertBulk", "InsertSess",
     "Find", "FindAll", "FindWithQuery", "FindWithQuerySortOne", "FindWithQuerySortAll",
     "FindWithQuerySortLimitAll", "FindWithQueryOne", "FindWithQueryAll",
     "FindWithQuerySortLimitOffsetAll", "FindWithQuerySortLimitOffsetTotalAll",
     "Pipe", "PipeOne", "Count", "Update", "UpdateWithQuery", "UpdateWithQueryAll",
     "Upsert", "UpsertWithQuery", "UpsertMulti", "Remove", "RemoveWithQuery",
     "RemoveWithIDs"}

DialOps == {"Connect", "ConnectWithTimeout", "NewConnection", "NewConnectionWithTimeout"}

(* C1: on a handle whose sess is nil, every index, insert, query, update,
   upsert and remove operation other than RemoveAll returns the
   not-connected error, copies no session and issues no request.  (No such
   operation assigns db.sess, so sess is nil before the call iff it is nil
   after it.  FindByID, whose result is a boolean, returns false there, and
   likewise without a copy or a request.) *)
C1_NotConnected ==
    sess = "nil" =>
        /\ last.op \in CheckedOps =>
              last.ret = errorNotConnected /\ last.copies = 0 /\ last.reqs = <<>>
        /\ last.op = "FindByID" =>
              last.ret = "false" /\ last.copies = 0 /\ last.reqs = <<>>

C1_Witness ==
    /\ sess = "nil"
    /\ last.op = "Insert"
    /\ last.ret = errorNotConnected
    /\ last.reqs = <<>>

(* C2: after a successful Connect IsConnected() is true, after a Disconnect
   it is false again, and no Disconnect fails. *)
C2_ConnectDisconnect ==
    /\ last.op = "Connect" /\ last.ret = "nil" => IsConnected
    /\ last.op = "Disconnect" => ~IsConnected /\ last.ret # "panic"

(* C4: FindByID returns true if and only if the lookup found the document:
   it returns false on an unconnected handle, on record-not-found and on any
   other error of the lookup. *)
C4_FindByIDIffFound ==
    last.op = "FindByID" =>
        (last.ret = "true" <=> (Len(last.reqs) = 1 /\ last.reqs[1].outcome = "nil"))

(* C5: on a connected handle UpsertMulti with sequences of different lengths
   returns the validation error, copies no session and issues no upsert; on
   an unconnected handle it returns the not-connected error whatever the
   lengths. *)
C5_UpsertMultiValidation ==
    last.op = "UpsertMulti" =>
        IF ~IsConnected
        THEN last.ret = errorNotConnected /\ last.copies = 0 /\ last.reqs = <<>>
        ELSE last.arg[1] # last.arg[2] =>
                 last.ret = errorNotValid /\ last.copies = 0 /\ last.reqs = <<>>

C5_Witness ==
    /\ IsConnected
    /\ last.op = "UpsertMulti"
    /\ last.arg = <<3, 2>>
    /\ last.ret = errorNotValid

(* C6: when the dial fails Connect and ConnectWithTimeout return the dial's
   error and leave the handle unconnected; when it succeeds they store the
   session and return no error. *)
C6_DialOutcome ==
    last.op \in DialOps =>
        /\ Len(last.reqs) = 1 /\ last.reqs[1].kind = "Dial"
        /\ last.reqs[1].outcome = "err" => last.ret = "err" /\ ~IsConnected
        /\ last.reqs[1].outcome = "nil" => last.ret = "nil" /\ sess = "live"

C6_Witness ==
    /\ last.op \in {"Connect", "ConnectWithTimeout"}
    /\ last.reqs[1].outcome = "err"
    /\ last.ret = "err"
    /\ ~IsConnected

(* C7: every operation that copies the owned session for its own use closes
   that copy exactly once before it returns, so between calls no working
   session of the handle is open (the sessions SessCopy hands to the caller
   and SessClose closes for the caller are not the handle's). *)
C7_WorkingSessionsReleased ==
    /\ work = 0
    /\ last.op \notin {"SessCopy", "SessClose"} => last.copies = last.closes

C7_Witness ==
    /\ last.op = "CreateIndexKeys"
    /\ last.ret = "err"
    /\ Len(last.reqs) < last.arg[1]
    /\ last.copies = 1
    /\ last.closes = 1
    /\ work = 0

(* C8: ConnectWithTimeout dials with the caller's timeout when it is at least
   one second and with the default timeout of 15 seconds when it is below,
   zero and negative values included; Connect dials with the default. *)
C8_DialTimeout ==
    /\ last.op \in {"ConnectWithTimeout", "NewConnectionWithTimeout"} =>
          last.reqs[1].dur = IF last.arg[1] >= Second THEN last.arg[1] ELSE 15 * Second
    /\ last.op \in {"Connect", "NewConnection"} => last.reqs[1].dur = 15 * Second

C8_Witness ==
    /\ last.op = "ConnectWithTimeout"
    /\ last.arg[1] = Second - 1
    /\ last.reqs[1].dur = defaultConTimeout

(* C10: once Disconnect has closed the owned session, no later call copies
   or closes that session again, unless a Connect succeeded in between. *)
C10_NoUseAfterRelease ==
    last.stale = 0

----------------------------------------------------------------------------
(* Properties of SetMaxTimeMS beside a read operation (SpecRace) *)

(* C3: with SetMaxTimeMS in one goroutine and Find in another, the accesses
   to db.maxTimeMS exclude each other as under the read/write lock: Find is
   never part-way through its load of db.maxTimeMS while SetMaxTimeMS is
   part-way through its store, and the value Find uses is the one set before
   or the one being set. *)
C3_LockedAccess ==
    /\ ~(wpc = "locked" /\ wdone \notin {{}, Words} /\ rpc = "read" /\ rdone # {})
    /\ rop = "Find" /\ rpc = "loaded" => Join(rbuf) \in window

(* C9: every read or aggregate request, the count and the fetch of
   FindWithQuerySortLimitOffsetTotalAll included, leaves with the max-time
   value most recently set when it was dispatched (a value that was current
   at some moment between the load of db.maxTimeMS and the dispatch). *)
C9_BudgetIsLatest ==
    \A i \in 1..Len(sent) : sent[i].dur \in sent[i].window

====
